---- MODULE Spec2Model ----
(***************************************************************************)
(* Model of src/app.py: the Streamlit dashboard's pipeline                  *)
(*   main: get_secrets -> DataEngine/AIEngine construction ->               *)
(*         get_coordinates -> demo-coordinate substitution ->               *)
(*         get_law_data -> generate_report -> rendering.                    *)
(*                                                                         *)
(* Python values are modelled as follows.                                  *)
(*   None              the record [none |-> TRUE]                          *)
(*   a str that may be None   Str(t) = [str |-> t]                          *)
(*   a str             a sequence of tokens; an f-string is \o             *)
(*   a dict            a record / function on its keys                     *)
(*   a raised exception of an external call   [exc |-> text]               *)
(* Korean message texts are transliterated to ASCII.                       *)
(***************************************************************************)
EXTENDS Integers, Sequences, FiniteSets, TLC

VARIABLES
    pc,              \* position of the script run inside main()
    target_address,  \* the text_input value of the run
    keys,            \* the dict SystemConfig.get_secrets returns (st.secrets is fixed)
    is_active,       \* AIEngine.is_active of the run's ai_engine
    configure_exc,   \* whether genai.configure/GenerativeModel raised
    genai_configured,\* module-global state of genai: configure() has succeeded
    response,        \* what requests.get did in this run (None: no request)
    returned,        \* the pair get_coordinates returned
    coords,          \* main's local coords (after the demo substitution)
    law_info,        \* main's local law_info
    gen_response,    \* what model.generate_content did (None: not called)
    genArgs,         \* the arguments generate_report was invoked with
    prompt,          \* the prompt generate_report built
    ai_result,       \* main's local ai_result
    shown,           \* the text st.markdown(ai_result) rendered
    calls,           \* engine methods invoked so far in this run, in order
    kakaoCalls,      \* HTTP requests sent to the address-search service
    genCalls,        \* generate_content calls sent to the generative service
    prev,            \* a completed earlier run kept for comparison
    observing,       \* whether earlier runs are kept for comparison
    pnu_in,          \* input tuple of the parcel-number builder
    pnu_out          \* its result

vars == <<pc, target_address, keys, is_active, configure_exc,
          genai_configured, response,
          returned, coords, law_info, gen_response, genArgs, prompt,
          ai_result, shown, calls, kakaoCalls, genCalls, prev, observing,
          pnu_in, pnu_out>>

mainVars == <<pc, target_address, keys, is_active, configure_exc,
              genai_configured, response,
              returned, coords, law_info, gen_response, genArgs, prompt,
              ai_result, shown, calls, kakaoCalls, genCalls>>

pnuVars == <<pnu_in, pnu_out>>

-----------------------------------------------------------------------------
(* Bounds *)

MaxDocs == 2

-----------------------------------------------------------------------------
(* Python values *)

None == [none |-> TRUE]

Str(t) == [str |-> t]

\* Python truthiness of an optional str: None and "" are falsy.
Truthy(v) == v # None /\ v.str # <<>>

\* dict.get(k, default)
Get(d, k, default) == IF k \in DOMAIN d THEN d[k] ELSE default

FiveKeys == {"lat", "lng", "region_1depth", "region_2depth", "region_3depth"}

-----------------------------------------------------------------------------
(* Inputs: addresses, secrets, and what the external services can answer *)

Addresses == {"Teheran-ro 427", "Dosa-ri 163-1"}

KeyValues == {None, Str(<<"KEY">>)}

Secrets == [google_api_key : KeyValues, kakao_api_key : KeyValues,
            law_api_key : KeyValues]

\* float(s): defined on numeric strings only (value in 1e-4 degrees).
FloatTable == [s \in {"37.5665", "126.9780", "37.7261", "126.5927"} |->
                 CASE s = "37.5665"  -> 375665
                   [] s = "126.9780" -> 1269780
                   [] s = "37.7261"  -> 377261
                   [] s = "126.5927" -> 1265927]

DocA == [x |-> "126.9780", y |-> "37.5665",
         address |-> [region_1depth_name |-> "Seoul",
                      region_2depth_name |-> "Gangnam-gu",
                      region_3depth_name |-> "Yeoksam-dong"]]

DocB == [x |-> "126.5927", y |-> "37.7261",
         address |-> [region_1depth_name |-> "Gyeonggi",
                      region_2depth_name |-> "Gimpo-si",
                      region_3depth_name |-> "Tongjin-eup"]]

\* A road-name match: the service sends "address": null.
DocRoad == [x |-> "126.9780", y |-> "37.5665", address |-> None]

Docs == {DocA, DocB, DocRoad}

RECURSIVE SeqsUpTo(_, _)
SeqsUpTo(S, n) ==
    IF n = 0 THEN {<<>>}
    ELSE LET shorter == SeqsUpTo(S, n - 1)
         IN  shorter \cup {Append(s, d) : s \in {t \in shorter : Len(t) = n - 1}, d \in S}

Raise(e) == [exc |-> e]

\* What requests.get(...) can do: raise, or return a response object.
\* data is response.json(); a body without 'documents' is an error payload.
GeoResponses ==
    {Raise("ReadTimeout")}
    \cup {[status_code |-> 500, data |-> [message |-> "error"]]}
    \cup {[status_code |-> 200, data |-> [message |-> "error"]]}
    \cup {[status_code |-> 200, data |-> [documents |-> ds]] : ds \in SeqsUpTo(Docs, MaxDocs)}

\* What model.generate_content(prompt) can do: raise, return a falsy response
\* (None), or return a response whose .text is a (possibly empty) str or
\* raises on access.
GenResponses ==
    {Raise("ResourceExhausted"), Raise("DeadlineExceeded"), None,
     [text |-> <<"REPORT-1">>], [text |-> <<>>], [text_exc |-> "ValueError"]}

-----------------------------------------------------------------------------
(* DataEngine *)

MsgNoKey == <<"API key missing (demo mode)">>

MsgNoResult == <<"address search returned no result">>

MsgKakaoError(status_code) == <<"Kakao API error: ", ToString(status_code)>>

MsgNetworkParse(e) == <<"network/parsing error: ", e>>

\* The exception raised while the coords dict literal is evaluated for doc,
\* in evaluation order (y, x, address, region names); "" when none is raised.
DocException(doc) ==
    IF "y" \notin DOMAIN doc THEN "KeyError: 'y'"
    ELSE IF doc.y \notin DOMAIN FloatTable THEN "ValueError: could not convert string to float"
    ELSE IF "x" \notin DOMAIN doc THEN "KeyError: 'x'"
    ELSE IF doc.x \notin DOMAIN FloatTable THEN "ValueError: could not convert string to float"
    ELSE IF "address" \notin DOMAIN doc THEN "KeyError: 'address'"
    ELSE IF doc.address = None THEN "TypeError: 'NoneType' object is not subscriptable"
    ELSE IF "region_1depth_name" \notin DOMAIN doc.address THEN "KeyError: 'region_1depth_name'"
    ELSE IF "region_2depth_name" \notin DOMAIN doc.address THEN "KeyError: 'region_2depth_name'"
    ELSE IF "region_3depth_name" \notin DOMAIN doc.address THEN "KeyError: 'region_3depth_name'"
    ELSE ""

\* Builds the dict without its last key.
CoordsOfPartial(doc) ==
    [lat |-> FloatTable[doc.y],
     lng |-> FloatTable[doc.x],
     region_1depth |-> doc.address.region_1depth_name,
     region_2depth |-> doc.address.region_2depth_name]

\* The coords dict built from one candidate.
CoordsOf(doc) ==
    [lat |-> FloatTable[doc.y],
     lng |-> FloatTable[doc.x],
     region_1depth |-> doc.address.region_1depth_name,
     region_2depth |-> doc.address.region_2depth_name,
     region_3depth |-> doc.address.region_3depth_name]

\* Reads the last candidate instead of the first.
LastDocument(documents) == documents[Len(documents)]

\* The candidate get_coordinates reads.
FirstDocument(documents) == documents[1]

\* Sends the request before looking at the key.
GeocodeRequestsAlways(kakao_key) == 1

\* Number of HTTP requests get_coordinates sends.
GeocodeRequests(kakao_key) == IF Truthy(kakao_key) THEN 1 ELSE 0

\* DataEngine.get_coordinates: the returned pair <<coords, error>>.
\* resp is what requests.get did (unused when the key is missing).
get_coordinates(kakao_key, resp) ==
    IF ~Truthy(kakao_key) THEN <<None, Str(MsgNoKey)>>
    ELSE IF "exc" \in DOMAIN resp THEN <<None, Str(MsgNetworkParse(resp.exc))>>
    ELSE IF resp.status_code = 200 THEN
        IF "documents" \notin DOMAIN resp.data
        THEN <<None, Str(MsgNetworkParse("KeyError: 'documents'"))>>
        ELSE IF resp.data.documents # <<>> THEN
            LET doc == FirstDocument(resp.data.documents)
            IN  IF DocException(doc) # ""
                THEN <<None, Str(MsgNetworkParse(DocException(doc)))>>
                ELSE <<CoordsOf(doc), None>>
        ELSE <<None, Str(MsgNoResult)>>
    ELSE <<None, Str(MsgKakaoError(resp.status_code))>>

MsgLawKeyMissing == <<"urban-planning ordinance data pending (API Key Missing)">>

\* DataEngine.get_law_data
get_law_data(law_key, region_name) ==
    IF ~Truthy(law_key) THEN MsgLawKeyMissing
    ELSE <<"[", region_name, "] urban-planning ordinance search result: ",
           "likely class-3 general residential, coverage 50%, floor-area ratio 250%">>

-----------------------------------------------------------------------------
(* AIEngine *)

\* Treats the engine as usable whenever genai was configured by an earlier run.
AIEngineInitReuse(api_key, raised) == Truthy(api_key) /\ (~raised \/ genai_configured)

\* AIEngine.__init__: is_active after construction.
AIEngineInit(api_key, raised) == Truthy(api_key) /\ ~raised

\* AIEngine._get_demo_response
DemoResponse == <<"### Demo-mode analysis result",
                  "Gemini API key is not set, or network error",
                  "1. legal analysis (example)",
                  "2. building limits (example)",
                  "3. profitability strategy (example)">>

MsgEmptyResponse == <<"AI analysis could not be generated. (response empty)">>

MsgAIError(e) == <<"AI analysis failed: ", e, "(replaced with the demo result)">> \o DemoResponse

\* The f-string prompt of generate_report.
BuildPrompt(address, coords_data, law_text) ==
    <<"address: ", address, "region: ",
      Get(coords_data, "region_1depth", ""),
      Get(coords_data, "region_2depth", ""),
      Get(coords_data, "region_3depth", ""),
      "law data: ">> \o law_text

\* Calls the service a second time after an exception.
GenerateCallsRetry(active, gen) ==
    IF active THEN (IF "exc" \in DOMAIN gen THEN 2 ELSE 1) ELSE 0

\* Number of generate_content calls one generate_report invocation makes.
GenerateCalls(active, gen) == IF active THEN 1 ELSE 0

\* Returns the error line alone, without the demo text, on an exception.
generate_report_bare(active, gen) ==
    IF ~active THEN DemoResponse
    ELSE IF "exc" \in DOMAIN gen THEN <<"AI analysis failed: ", gen.exc>>
    ELSE IF gen = None THEN MsgEmptyResponse
    ELSE IF "text_exc" \in DOMAIN gen THEN <<"AI analysis failed: ", gen.text_exc>>
    ELSE IF gen.text # <<>> THEN gen.text
    ELSE MsgEmptyResponse

\* AIEngine.generate_report: the returned text.  gen is what
\* generate_content did (unused when the engine is inactive).
generate_report(active, gen) ==
    IF ~active THEN DemoResponse
    ELSE IF "exc" \in DOMAIN gen THEN MsgAIError(gen.exc)
    ELSE IF gen = None THEN MsgEmptyResponse
    ELSE IF "text_exc" \in DOMAIN gen THEN MsgAIError(gen.text_exc)
    ELSE IF gen.text # <<>> THEN gen.text
    ELSE MsgEmptyResponse

-----------------------------------------------------------------------------
(* main *)

\* Demo coordinates without the region names.
DemoCoordsPartial == [lat |-> 375665, lng |-> 1269780]

\* The demo coordinates (Seoul city hall) main substitutes.
DemoCoords ==
    [lat |-> 375665, lng |-> 1269780,
     region_1depth |-> "Seoul", region_2depth |-> "Jung-gu",
     region_3depth |-> "Taepyeongno 1-ga"]

\* Leaves a failed geocode's None in place.
SubstituteNothing(c) == c

\* main, "if not coords: coords = {...}"
Substitute(c) == IF c = None THEN DemoCoords ELSE c

NoText == <<>>

\* What a completed run consumed (None: the service was not called or gave
\* nothing) and what it produced.
RunRecord ==
    [in  |-> [address |-> target_address, keys |-> keys,
              configure_exc |-> configure_exc,
              response |-> response, gen_response |-> gen_response],
     out |-> [coords |-> coords, law_info |-> law_info, ai_result |-> ai_result]]

\* The earlier run kept for comparison once a new script run begins.
Keep == {prev} \cup (IF observing /\ pc = "done" THEN {RunRecord} ELSE {})

ScriptIdle == pc \in {"wait", "done", "error"}

\* One script run without the button: engines are built, the welcome text is
\* rendered, nothing of an earlier run's locals survives.
MainWelcome ==
    /\ ScriptIdle
    /\ \E a \in Addresses, raised \in BOOLEAN :
        /\ target_address' = a
        /\ configure_exc' = (Truthy(keys.google_api_key) /\ raised)
        /\ is_active' = AIEngineInit(keys.google_api_key, raised)
        /\ genai_configured' = (genai_configured \/ (Truthy(keys.google_api_key) /\ ~raised))
    /\ pc' = "wait"
    /\ response' = None /\ returned' = <<None, None>> /\ coords' = None
    /\ law_info' = NoText /\ gen_response' = None /\ genArgs' = None
    /\ prompt' = NoText /\ ai_result' = NoText /\ shown' = NoText
    /\ calls' = <<>> /\ kakaoCalls' = 0 /\ genCalls' = 0
    /\ prev' \in Keep
    /\ UNCHANGED <<keys, observing, pnuVars>>

\* One script run with the button pressed, up to the status container.
MainStart ==
    /\ ScriptIdle
    /\ \E a \in Addresses, raised \in BOOLEAN :
        /\ target_address' = a
        /\ configure_exc' = (Truthy(keys.google_api_key) /\ raised)
        /\ is_active' = AIEngineInit(keys.google_api_key, raised)
        /\ genai_configured' = (genai_configured \/ (Truthy(keys.google_api_key) /\ ~raised))
    /\ pc' = "step1"
    /\ response' = None /\ returned' = <<None, None>> /\ coords' = None
    /\ law_info' = NoText /\ gen_response' = None /\ genArgs' = None
    /\ prompt' = NoText /\ ai_result' = NoText /\ shown' = NoText
    /\ calls' = <<>> /\ kakaoCalls' = 0 /\ genCalls' = 0
    /\ prev' \in Keep
    /\ UNCHANGED <<keys, observing, pnuVars>>

\* [Step 1] get_coordinates and the demo-coordinate substitution.
MainStep1 ==
    /\ pc = "step1"
    /\ \E resp \in (IF GeocodeRequests(keys.kakao_api_key) > 0 THEN GeoResponses ELSE {None}) :
        /\ response' = resp
        /\ returned' = get_coordinates(keys.kakao_api_key, resp)
        /\ coords' = Substitute(get_coordinates(keys.kakao_api_key, resp)[1])
    /\ kakaoCalls' = kakaoCalls + GeocodeRequests(keys.kakao_api_key)
    /\ calls' = Append(calls, "get_coordinates")
    /\ pc' = "step2"
    /\ UNCHANGED <<target_address, keys, is_active, configure_exc, genai_configured, law_info,
                   gen_response, genArgs, prompt, ai_result, shown, genCalls,
                   prev, observing, pnuVars>>

\* [Step 2] get_law_data(coords.get('region_2depth', ...)).  coords.get on
\* None raises AttributeError, which the __main__ guard reports.
MainStep2 ==
    /\ pc = "step2"
    /\ IF coords = None
       THEN /\ pc' = "error"
            /\ UNCHANGED <<law_info, calls>>
       ELSE /\ law_info' = get_law_data(keys.law_api_key,
                                        Get(coords, "region_2depth", "unknown region"))
            /\ calls' = Append(calls, "get_law_data")
            /\ pc' = "step3"
    /\ UNCHANGED <<target_address, keys, is_active, configure_exc, genai_configured, response,
                   returned, coords, gen_response, genArgs, prompt, ai_result,
                   shown, kakaoCalls, genCalls, prev, observing, pnuVars>>

\* generate_report(target_address, coords, law_info), invoked at position at.
GenerateAt(at) ==
    /\ pc = at
    /\ genArgs' = [address |-> target_address, coords_data |-> coords,
                   law_text |-> law_info]
    /\ prompt' = BuildPrompt(target_address, coords, law_info)
    /\ \E gen \in (IF is_active THEN GenResponses ELSE {None}) :
        /\ gen_response' = gen
        /\ ai_result' = generate_report(is_active, gen)
        /\ genCalls' = genCalls + GenerateCalls(is_active, gen)
    /\ calls' = Append(calls, "generate_report")
    /\ pc' = "render"
    /\ UNCHANGED <<target_address, keys, is_active, configure_exc, genai_configured, response,
                   returned, coords, law_info, shown, kakaoCalls, prev, observing, pnuVars>>

\* Invokes generate_report right after step 1, before the law lookup.
MainStep3Early == GenerateAt("step2")

\* [Step 3] AI analysis, after the law lookup.
MainStep3 == GenerateAt("step3")

\* Result rendering: the map and region line subscript coords; a missing key
\* raises KeyError, which the __main__ guard reports instead of the report.
MainRender ==
    /\ pc = "render"
    /\ IF FiveKeys \subseteq DOMAIN coords
       THEN shown' = ai_result /\ pc' = "done"
       ELSE shown' = shown /\ pc' = "error"
    /\ UNCHANGED <<target_address, keys, is_active, configure_exc, genai_configured, response,
                   returned, coords, law_info, gen_response, genArgs, prompt,
                   ai_result, calls, kakaoCalls, genCalls, prev, observing, pnuVars>>

\* The state after the first script run (no button pressed yet).
MainInit ==
    /\ pc = "wait"
    /\ target_address = "Teheran-ro 427"
    /\ keys \in Secrets
    /\ \E raised \in BOOLEAN :
        /\ configure_exc = (Truthy(keys.google_api_key) /\ raised)
        /\ genai_configured = (Truthy(keys.google_api_key) /\ ~raised)
        /\ is_active = AIEngineInit(keys.google_api_key, raised)
    /\ response = None /\ returned = <<None, None>> /\ coords = None
    /\ law_info = NoText /\ gen_response = None /\ genArgs = None
    /\ prompt = NoText /\ ai_result = NoText /\ shown = NoText
    /\ calls = <<>> /\ kakaoCalls = 0 /\ genCalls = 0

PnuIdle == pnu_in = None /\ pnu_out = NoText

Init == MainInit /\ prev = None /\ observing = FALSE /\ PnuIdle

\* The same program, with completed runs kept so that two runs can be compared.
HistInit == MainInit /\ prev = None /\ observing = TRUE /\ PnuIdle

Next == MainWelcome \/ MainStart \/ MainStep1 \/ MainStep2 \/ MainStep3 \/ MainRender

Spec == Init /\ [][Next]_vars

HistSpec == HistInit /\ [][Next]_vars

\* The script is synchronous: once started, each step of main is taken.
FairSpec == Spec /\ WF_vars(MainStep1) /\ WF_vars(MainStep2)
                 /\ WF_vars(MainStep3) /\ WF_vars(MainRender)

-----------------------------------------------------------------------------
(* ParcelNumberBuilder: strings are sequences of one-character strings *)

LotWidth == 4

DistrictWidth == 10

PnuLength == 19

RECURSIVE ZeroPad(_, _)
\* s left-padded with "0" to width w; never truncates.
ZeroPad(s, w) == IF Len(s) >= w THEN s ELSE ZeroPad(<<"0">> \o s, w)

MountainFlag(isMountainLot) == IF isMountainLot THEN "2" ELSE "1"

\* Pads the concatenation of both lot fields instead of each field.
buildCombined(legalDistrictCode, isMountainLot, mainLotNumber, subLotNumber) ==
    legalDistrictCode \o <<MountainFlag(isMountainLot)>>
        \o ZeroPad(mainLotNumber \o subLotNumber, 2 * LotWidth)

\* ParcelNumberBuilder.build
build(legalDistrictCode, isMountainLot, mainLotNumber, subLotNumber) ==
    legalDistrictCode \o <<MountainFlag(isMountainLot)>>
        \o ZeroPad(mainLotNumber, LotWidth)
        \o (IF subLotNumber = <<>> THEN <<"0", "0", "0", "0">>
            ELSE ZeroPad(subLotNumber, LotWidth))

RECURSIVE StripZeros(_)
StripZeros(s) == IF s # <<>> /\ Head(s) = "0" THEN StripZeros(Tail(s)) ELSE s

\* Re-parsing the fixed-width fields of a parcel number.
ParsePnu(p) ==
    [legalDistrictCode |-> SubSeq(p, 1, DistrictWidth),
     isMountainLot |-> (p[DistrictWidth + 1] = "2"),
     mainLotNumber |-> StripZeros(SubSeq(p, DistrictWidth + 2, DistrictWidth + 1 + LotWidth)),
     subLotNumber |-> StripZeros(SubSeq(p, DistrictWidth + 2 + LotWidth, DistrictWidth + 1 + 2 * LotWidth))]

DistrictCodes == {<<"4","1","5","7","0","2","5","1","2","3">>,
                  <<"1","2","3","4","5","6","7","8","9","0">>}

LotDigits == {"0", "1", "6"}

\* Lot numbers as the geocoder delivers them: decimal numerals without a
\* leading zero, at most LotWidth digits.
LotNumbers == {n \in SeqsUpTo(LotDigits, LotWidth) : n # <<>> /\ Head(n) # "0"}

PnuInputs == [legalDistrictCode : DistrictCodes, isMountainLot : BOOLEAN,
              mainLotNumber : LotNumbers, subLotNumber : LotNumbers \cup {<<>>}]

PnuInit ==
    /\ MainInit /\ prev = None /\ observing = FALSE
    /\ keys = [google_api_key |-> None, kakao_api_key |-> None, law_api_key |-> None]
    /\ pnu_in \in PnuInputs
    /\ pnu_out = NoText

PnuBuild ==
    /\ pnu_out = NoText
    /\ pnu_out' = build(pnu_in.legalDistrictCode, pnu_in.isMountainLot,
                        pnu_in.mainLotNumber, pnu_in.subLotNumber)
    /\ UNCHANGED <<mainVars, prev, observing, pnu_in>>

PnuSpec == PnuInit /\ [][PnuBuild]_vars

-----------------------------------------------------------------------------
(* Properties *)

Range(q) == {q[i] : i \in DOMAIN q}

CallOrder == <<"get_coordinates", "get_law_data", "generate_report">>

\* The address-search service answered 200 with an empty candidate list.
EmptyGeocode ==
    /\ "status_code" \in DOMAIN response
    /\ response.status_code = 200
    /\ "documents" \in DOMAIN response.data
    /\ response.data.documents = <<>>

\* The address-search service answered 200 with at least one candidate.
CandidatesGeocode ==
    /\ "status_code" \in DOMAIN response
    /\ response.status_code = 200
    /\ "documents" \in DOMAIN response.data
    /\ response.data.documents # <<>>

\* A candidate every field of which get_coordinates can read.
Parses(doc) ==
    /\ {"x", "y", "address"} \subseteq DOMAIN doc
    /\ doc.x \in DOMAIN FloatTable /\ doc.y \in DOMAIN FloatTable
    /\ {"region_1depth_name", "region_2depth_name", "region_3depth_name"}
           \subseteq DOMAIN doc.address

GenRaised == "exc" \in DOMAIN gen_response \/ "text_exc" \in DOMAIN gen_response

GenError == IF "exc" \in DOMAIN gen_response THEN gen_response.exc ELSE gen_response.text_exc

\* C1 (as stated): when the geocoding service returns an empty candidate
\* list, the run performs neither get_law_data nor generate_report.
C1_NoDownstreamAfterEmpty ==
    EmptyGeocode =>
        /\ "get_law_data" \notin Range(calls)
        /\ "generate_report" \notin Range(calls)

\* C1 (amended): when the geocoding service returns an empty candidate list,
\* get_coordinates returns (None, "no result"), main substitutes the demo
\* coordinates, and the run goes on: a finished run has performed
\* get_law_data and generate_report on the demo coordinates and shows a report.
C1_EmptyGeocodeUsesDemoCoords ==
    EmptyGeocode =>
        /\ returned = <<None, Str(MsgNoResult)>>
        /\ coords = DemoCoords
        /\ pc # "error"
        /\ pc = "done" =>
            /\ calls = CallOrder
            /\ genArgs.coords_data = DemoCoords
            /\ (Truthy(keys.law_api_key) => law_info[2] = DemoCoords.region_2depth)
            /\ shown = ai_result /\ shown # NoText

C1_Witness == EmptyGeocode /\ pc = "done" /\ Truthy(keys.law_api_key)

\* C2: every triggered run eventually completes and shows a report text,
\* whatever the external steps did; no run ends in the crash handler.
C2_RunCompletes ==
    /\ [](pc # "error")
    /\ (pc = "step1") ~> (pc = "done" /\ shown # NoText /\ shown = ai_result)

\* A finished run in which geocoding raised, the law key is missing and the
\* generative call raised.
C2_Witness ==
    /\ pc = "done" /\ shown # NoText
    /\ "exc" \in DOMAIN response
    /\ ~Truthy(keys.law_api_key)
    /\ is_active /\ GenRaised

\* C3 (as stated): when the engine is inactive or the generative call raised,
\* generate_report returns the one fixed fallback string.
C3_FixedFallback ==
    (pc \in {"render", "done"} /\ (~is_active \/ GenRaised)) => ai_result = DemoResponse

\* C3 (amended): generate_report never raises; an inactive engine returns
\* exactly the fixed demo text; when the generative call raises, the result
\* is an error line carrying the exception's text followed by that same fixed
\* demo text, independent of the address and the facts.
C3_FallbackEndsWithDemo ==
    pc \in {"render", "done"} =>
        /\ ~is_active => ai_result = DemoResponse
        /\ (is_active /\ GenRaised) =>
            /\ Len(ai_result) = 3 + Len(DemoResponse)
            /\ ai_result[2] = GenError
            /\ SubSeq(ai_result, 4, Len(ai_result)) = DemoResponse
            /\ Range(ai_result) \cap
                 ({target_address} \cup Range(law_info) \cup {coords.region_2depth}) = {}

C3_Witness ==
    pc = "done" /\ is_active /\ "exc" \in DOMAIN gen_response /\ returned[1] # None

\* C4: the engine methods of a run are invoked in the order get_coordinates,
\* get_law_data, generate_report, and generate_report receives exactly the
\* coordinates (live or substituted) and the law text the two earlier steps
\* produced.
C4_StepOrder ==
    /\ calls = SubSeq(CallOrder, 1, Len(calls))
    /\ "generate_report" \in Range(calls) =>
        /\ genArgs.address = target_address
        /\ genArgs.coords_data = (IF returned[1] = None THEN DemoCoords ELSE returned[1])
        /\ genArgs.law_text = law_info
        /\ law_info # NoText
        /\ prompt[4] = genArgs.coords_data.region_1depth
        /\ SubSeq(prompt, 8, Len(prompt)) = law_info

C4_Witness ==
    pc = "done" /\ returned[1] # None /\ genArgs.coords_data = returned[1]
        /\ Truthy(keys.law_api_key)

\* C5: from the end of step 1 on, coords has exactly the five keys lat, lng,
\* region_1depth, region_2depth, region_3depth, and so has the coords record
\* generate_report received; rendering never fails on a missing key.
C5_CompleteShape ==
    /\ pc \in {"step2", "step3", "render", "done"} => DOMAIN coords = FiveKeys
    /\ genArgs # None => DOMAIN genArgs.coords_data = FiveKeys
    /\ pc # "error"

C5_Witness ==
    /\ pc = "done" /\ returned[1] = None /\ Truthy(keys.kakao_api_key)
    /\ DOMAIN genArgs.coords_data = FiveKeys

\* C6: for a 200 response with a non-empty candidate list, the result comes
\* from element 0 alone: its parsed fields when it parses, no coords otherwise.
C6_FirstCandidateOnly ==
    CandidatesGeocode =>
        LET doc == response.data.documents[1]
        IN  IF Parses(doc)
            THEN returned = <<[lat |-> FloatTable[doc.y], lng |-> FloatTable[doc.x],
                               region_1depth |-> doc.address.region_1depth_name,
                               region_2depth |-> doc.address.region_2depth_name,
                               region_3depth |-> doc.address.region_3depth_name], None>>
            ELSE returned[1] = None

C6_Witness ==
    /\ CandidatesGeocode
    /\ Len(response.data.documents) = 2
    /\ response.data.documents[1] = DocB /\ response.data.documents[2] = DocA
    /\ returned[1] # None

\* C7: for valid inputs the parcel number has exactly 19 characters, is the
\* district code, the flag "1"/"2", and the two lot numbers each zero-padded
\* to 4 ("0000" for an absent sub-lot), and re-parsing it gives the inputs.
C7_PnuRoundTrip ==
    pnu_out # NoText =>
        /\ Len(pnu_out) = PnuLength
        /\ SubSeq(pnu_out, 1, 10) = pnu_in.legalDistrictCode
        /\ pnu_out[11] = (IF pnu_in.isMountainLot THEN "2" ELSE "1")
        /\ \A i \in 1..4 :
            /\ pnu_out[11 + i] = (IF i <= 4 - Len(pnu_in.mainLotNumber) THEN "0"
                                  ELSE pnu_in.mainLotNumber[i - (4 - Len(pnu_in.mainLotNumber))])
            /\ pnu_out[15 + i] = (IF i <= 4 - Len(pnu_in.subLotNumber) THEN "0"
                                  ELSE pnu_in.subLotNumber[i - (4 - Len(pnu_in.subLotNumber))])
        /\ ParsePnu(pnu_out) = pnu_in

C7_Witness ==
    /\ pnu_in # None
    /\ pnu_in.mainLotNumber = <<"1", "6">> /\ pnu_in.subLotNumber = <<"1">>
    /\ ~pnu_in.isMountainLot
    /\ pnu_out = pnu_in.legalDistrictCode \o <<"1", "0", "0", "1", "6", "0", "0", "0", "1">>

\* C8: one generate_report invocation sends exactly one generate_content
\* call when the engine is active and none when it is inactive (key missing
\* or configuration failed); this holds again for a later run on the same
\* address, whose report is not taken from the earlier run.
C8_OneFreshCall ==
    /\ is_active = (Truthy(keys.google_api_key) /\ ~configure_exc)
    /\ pc \in {"wait", "step1", "step2", "step3"} => genCalls = 0
    /\ pc \in {"render", "done"} =>
        /\ genCalls = (IF is_active THEN 1 ELSE 0)
        /\ is_active => gen_response \in GenResponses
        /\ ~is_active => gen_response = None

\* A second run on the address of a kept earlier run: both called the service,
\* and the second shows what its own call returned.
C8_Witness ==
    /\ pc = "done" /\ prev # None
    /\ prev.in.address = target_address
    /\ prev.in.gen_response = [text |-> <<"REPORT-1">>]
    /\ is_active /\ genCalls = 1
    /\ "exc" \in DOMAIN gen_response
    /\ ai_result # prev.out.ai_result

\* C9: two completed runs that had the same address, keys, configuration
\* outcome and service responses have the same coords, law text and report,
\* whatever ran in between.
C9_RunsIndependent ==
    (pc = "done" /\ prev # None /\ prev.in = RunRecord.in) => prev.out = RunRecord.out

C9_Witness ==
    /\ pc = "done" /\ prev # None /\ prev.in = RunRecord.in
    /\ configure_exc /\ genai_configured
    /\ returned[1] = None

\* C10: get_coordinates returns a pair with exactly one non-None component;
\* coords only for a 200 response with a non-empty list whose first candidate
\* parses; without a key it sends no request.
C10_CoordsXorError ==
    "get_coordinates" \in Range(calls) =>
        /\ (returned[1] = None) # (returned[2] = None)
        /\ returned[2] = None <=>
              (CandidatesGeocode /\ Parses(response.data.documents[1]))
        /\ returned[2] # None => Truthy(returned[2])
        /\ ~Truthy(keys.kakao_api_key) =>
              (kakaoCalls = 0 /\ response = None /\ returned = <<None, Str(MsgNoKey)>>)
        /\ Truthy(keys.kakao_api_key) => (kakaoCalls = 1 /\ response \in GeoResponses)

C10_Witness ==
    pc = "done" /\ ~Truthy(keys.kakao_api_key) /\ kakaoCalls = 0 /\ returned[1] = None

====
